---- MODULE Spec2Model ----
(***************************************************************************)
(* The three-pass analysis workflow of the arxow front-end.                *)
(*                                                                         *)
(* Two client variants are modelled side by side; `variant` is chosen in   *)
(* Init and never changes:                                                 *)
(*   "single"  src/frontend/app/page.js  - the file is sent with each pass *)
(*   "two"     src/unnamed/part_000      - upload once, analyze by id      *)
(*                                                                         *)
(* One action is one run-to-completion segment of the JavaScript: an event *)
(* handler up to its first await, or the continuation of an async function *)
(* from the settlement of an awaited fetch up to the next await or return. *)
(* An async function keeps the `file` and `documentId` of the render in    *)
(* which its click handler was created (closure capture); those captured   *)
(* values travel with the request record.                                  *)
(*                                                                         *)
(* The backend is outside the repository.  It answers an upload with an    *)
(* identifier for the uploaded file, an analysis of a document it knows    *)
(* with an analysis of that document, and any request with a JSON body     *)
(* lacking the expected field (an error status) or with a failure          *)
(* (network error, unparseable body).                                      *)
(***************************************************************************)
EXTENDS Integers, Sequences, FiniteSets, TLC

NumFiles == 2
MaxRequests == 7

Files == 1..NumFiles
NoFile == 0
Passes == 1..3
Variants == {"single", "two"}

(* JavaScript values held in state, as records of one shape. *)
Null == [t |-> "null", doc |-> 0, pass |-> 0]
Undefined == [t |-> "undefined", doc |-> 0, pass |-> 0]
Analysis(f, n) == [t |-> "analysis", doc |-> f, pass |-> n]
DocumentId(f) == [t |-> "document_id", doc |-> f, pass |-> 0]
Metadata(f) == [t |-> "metadata", doc |-> f, pass |-> 0]
ImageRecord(f, n) == [t |-> "image", doc |-> f, pass |-> n]

Truthy(v) == v.t \notin {"null", "undefined"}

VARIABLES
  variant,      \* which client is running
  file,         \* useState(null): the selected file, NoFile for null/undefined
  documentId,   \* useState(null), two-phase variant
  analysis,     \* useState({...}): pass number -> stored value
  images,       \* useState([]), two-phase variant
  loading,      \* useState(false): the pending flag
  currentPass,  \* useState(1): the displayed pass
  metadata,     \* useState(null), two-phase variant
  inflight,     \* fetches issued and not yet settled
  nSent,        \* number of fetches issued so far
  last,         \* history: the segment that ran last
  content,      \* the argument of renderAnalysisContent
  rendered      \* what has become of it: returned, then displayed

vars == <<variant, file, documentId, analysis, images, loading, currentPass,
          metadata, inflight, nSent, last, content, rendered>>

(* The renderer's variables; the workflow leaves them alone. *)
rvars == <<content, rendered>>

NoRequest == [seq |-> 0, kind |-> "none", pass |-> 0, file |-> NoFile, docId |-> Null]

Request(kind, n, f, id) ==
  [seq |-> nSent + 1, kind |-> kind, pass |-> n, file |-> f, docId |-> id]

(* The history record: the segment, its pass and request, and for a        *)
(* response whether data.images was truthy and what it held.               *)
EventWithImages(ev, n, r, hasImages, imgs) ==
  [ev |-> ev, pass |-> n, req |-> r, hasImages |-> hasImages, imgs |-> imgs]

Event(ev, n, r) == EventWithImages(ev, n, r, FALSE, <<>>)

(* JSON values as the renderer sees them, as records of one shape: the    *)
(* kind, the text of a scalar, the keys of an object in Object.entries    *)
(* order (a key is a sequence of characters), and the items of an array   *)
(* or the values of an object.  A string that is JSON text carries the    *)
(* value the text denotes as its one item.                                *)
JValue(k, t, keys, items) == [k |-> k, s |-> t, keys |-> keys, items |-> items]
JNull == JValue("null", "null", <<>>, <<>>)
JNumber(t) == JValue("number", t, <<>>, <<>>)
JString(t) == JValue("string", t, <<>>, <<>>)
JArray(items) == JValue("array", "", <<>>, items)
JObject(keys, items) == JValue("object", "", keys, items)

(* No call of the renderer, and no outcome of one. *)
NoContent == JValue("none", "", <<>>, <<>>)
NotRendered == [status |-> "none", sections |-> <<>>, shown |-> FALSE]

(* The initial analysis object: the single-request variant reads the keys   *)
(* first_pass.. it initialises to null; the two-phase variant reads the    *)
(* keys pass_1.., which the initial object does not have.                  *)
InitialAnalysis(v) ==
  IF v = "single" THEN [n \in Passes |-> Null] ELSE [n \in Passes |-> Undefined]

InitWorkflow ==
  /\ variant \in Variants
  /\ file = NoFile
  /\ documentId = Null
  /\ analysis = InitialAnalysis(variant)
  /\ images = <<>>
  /\ loading = FALSE
  /\ currentPass = 1
  /\ metadata = Null
  /\ inflight = {}
  /\ nSent = 0
  /\ last = Event("init", 0, NoRequest)

Init ==
  /\ InitWorkflow
  /\ content = NoContent
  /\ rendered = NotRendered

(* fetch(...): a request leaves the client. *)
fetch(r) ==
  /\ inflight' = inflight \cup {r}
  /\ nSent' = nSent + 1

(* An awaited fetch settles: the request is no longer in flight. *)
settle(r) == inflight' = inflight \ {r}

(* handleFileUpload without setCurrentPass(1). *)
handleFileUploadSingle_keepsPass(f) ==
  /\ file' = f
  /\ analysis' = [n \in Passes |-> Null]
  /\ last' = Event("select", 0, NoRequest)
  /\ UNCHANGED <<variant, documentId, images, metadata, loading, inflight, nSent,
                 currentPass>>

(* handleFileUpload aborting the pending fetch. *)
handleFileUploadSingle_aborts(f) ==
  /\ file' = f
  /\ analysis' = [n \in Passes |-> Null]
  /\ currentPass' = 1
  /\ inflight' = {}
  /\ loading' = FALSE
  /\ last' = Event("select", 0, NoRequest)
  /\ UNCHANGED <<variant, documentId, images, metadata, nSent>>

(* ====================================================================== *)
(* Single-request variant: src/frontend/app/page.js                       *)
(* ====================================================================== *)

(* disabled without `|| loading`. *)
disabledSingle_ignoresLoading(n) ==
  \/ file = NoFile
  \/ (n > 1 /\ ~Truthy(analysis[n - 1]))

(* disabled without the previous pass's result. *)
disabledSingle_ignoresPrevious(n) ==
  \/ file = NoFile
  \/ loading

handleFileUploadSingle(f) ==
  /\ file' = f
  /\ analysis' = [n \in Passes |-> Null]
  /\ currentPass' = 1
  /\ last' = Event("select", 0, NoRequest)
  /\ UNCHANGED <<variant, documentId, images, metadata, loading, inflight, nSent>>

(* The `disabled` attribute of the button of pass n. *)
disabledSingle(n) ==
  \/ file = NoFile
  \/ (n > 1 /\ ~Truthy(analysis[n - 1]))
  \/ loading

(* analyzePaper(n) up to its await. *)
analyzePaperSingle(n) ==
  IF file = NoFile
    THEN /\ last' = Event("click_nofile", n, NoRequest)
         /\ UNCHANGED <<variant, file, documentId, analysis, images, loading,
                        currentPass, metadata, inflight, nSent>>
    ELSE /\ nSent < MaxRequests
         /\ loading' = TRUE
         /\ fetch(Request("analyze", n, file, Null))
         /\ last' = Event("click_analyze", n, Request("analyze", n, file, Null))
         /\ UNCHANGED <<variant, file, documentId, analysis, images,
                        currentPass, metadata>>

(* setAnalysis given a fresh object instead of a merge with prev. *)
setAnalysisSingle_dropsOthers(prev, passNumber, value) ==
  [n \in Passes |-> IF passNumber = n THEN value ELSE Null]

(* onClick of the button of pass n; a disabled button receives no click. *)
onClickSingle(n) ==
  /\ ~disabledSingle(n)
  /\ IF Truthy(analysis[n])
       THEN /\ currentPass' = n
            /\ last' = Event("click_show", n, NoRequest)
            /\ UNCHANGED <<variant, file, documentId, analysis, images,
                           loading, metadata, inflight, nSent>>
       ELSE analyzePaperSingle(n)

(* The functional update passed to setAnalysis. *)
setAnalysisSingle(prev, passNumber, value) ==
  [n \in Passes |-> IF passNumber = n THEN value ELSE prev[n]]

(* setCurrentPass(passNumber) placed in the finally block. *)
analyzeRejectedSingle_movesPass(r) ==
  /\ loading' = FALSE
  /\ currentPass' = r.pass
  /\ settle(r)
  /\ last' = Event("analyze_failed", r.pass, r)
  /\ UNCHANGED <<variant, file, documentId, analysis, images, metadata, nSent>>

(* analyzePaper after the await, response.json() yielding `data`;         *)
(* value is data.analysis.                                                *)
analyzeResolvedSingle(r, value) ==
  /\ analysis' = setAnalysisSingle(analysis, r.pass, value)
  /\ currentPass' = r.pass
  /\ loading' = FALSE
  /\ settle(r)
  /\ UNCHANGED <<variant, file, documentId, images, metadata, nSent>>

(* analyzePaper after the await, fetch or response.json() rejecting:      *)
(* catch, then finally.                                                   *)
analyzeRejectedSingle(r) ==
  /\ loading' = FALSE
  /\ settle(r)
  /\ last' = Event("analyze_failed", r.pass, r)
  /\ UNCHANGED <<variant, file, documentId, analysis, images, currentPass,
                 metadata, nSent>>

(* ====================================================================== *)
(* Two-phase variant: src/unnamed/part_000                                *)
(* ====================================================================== *)

(* handleFileUpload without setDocumentId(null) and setMetadata(null). *)
handleFileUploadTwoPhase_keepsId(f) ==
  /\ file' = f
  /\ analysis' = [n \in Passes |-> Undefined]
  /\ images' = <<>>
  /\ currentPass' = 1
  /\ last' = Event("select", 0, NoRequest)
  /\ UNCHANGED <<variant, documentId, metadata, loading, inflight, nSent>>

handleFileUploadTwoPhase(f) ==
  /\ file' = f
  /\ analysis' = [n \in Passes |-> Undefined]
  /\ images' = <<>>
  /\ documentId' = Null
  /\ currentPass' = 1
  /\ metadata' = Null
  /\ last' = Event("select", 0, NoRequest)
  /\ UNCHANGED <<variant, loading, inflight, nSent>>

(* The `disabled` attribute of the button of pass n. *)
disabledTwoPhase(n) ==
  \/ file = NoFile
  \/ (n > 1 /\ ~Truthy(analysis[n - 1]))
  \/ loading

(* The analyze fetch of analyzePaper: setLoading(true) and the request,   *)
(* addressed to the documentId the running closure holds.                 *)
analyzeFetchTwoPhase(n, f, id) ==
  /\ loading' = TRUE
  /\ fetch(Request("analyze", n, f, id))

(* analyzePaper testing `file` alone before uploading. *)
onClickTwoPhase_alwaysUploads(n) ==
  /\ ~disabledTwoPhase(n)
  /\ file # NoFile
  /\ nSent + 1 < MaxRequests
  /\ loading' = TRUE
  /\ fetch(Request("upload", n, file, documentId))
  /\ last' = Event("click_upload", n, Request("upload", n, file, documentId))
  /\ UNCHANGED <<variant, file, documentId, analysis, images, currentPass,
                 metadata>>

(* onClick of the button of pass n: analyzePaper(n) up to its first       *)
(* await, which is uploadDocument's fetch or the analyze fetch.           *)
onClickTwoPhase(n) ==
  /\ ~disabledTwoPhase(n)
  /\ IF ~Truthy(documentId) /\ file # NoFile
       THEN /\ nSent + 1 < MaxRequests
            /\ loading' = TRUE
            /\ fetch(Request("upload", n, file, documentId))
            /\ last' = Event("click_upload", n,
                             Request("upload", n, file, documentId))
       ELSE /\ nSent < MaxRequests
            /\ analyzeFetchTwoPhase(n, file, documentId)
            /\ last' = Event("click_analyze", n,
                             Request("analyze", n, file, documentId))
  /\ UNCHANGED <<variant, file, documentId, analysis, images, currentPass,
                 metadata>>

(* uploadDocument after its await with a body carrying document_id, and   *)
(* analyzePaper resuming with the returned identifier: it goes on to the  *)
(* analyze fetch.                                                         *)
uploadResolvedTwoPhase(r) ==
  /\ documentId' = DocumentId(r.file)
  /\ metadata' = Metadata(r.file)
  /\ inflight' = (inflight \ {r}) \cup {Request("analyze", r.pass, r.file, r.docId)}
  /\ nSent' = nSent + 1
  /\ loading' = TRUE
  /\ last' = Event("upload_ok", r.pass, r)
  /\ UNCHANGED <<variant, file, analysis, images, currentPass>>

(* analyzePaper without `if (!newDocId) return`: it goes on to the        *)
(* analyze fetch.                                                         *)
uploadNoIdTwoPhase_continues(r) ==
  /\ documentId' = Undefined
  /\ metadata' = Undefined
  /\ inflight' = (inflight \ {r}) \cup {Request("analyze", r.pass, r.file, r.docId)}
  /\ nSent' = nSent + 1
  /\ loading' = TRUE
  /\ last' = Event("upload_noid", r.pass, r)
  /\ UNCHANGED <<variant, file, analysis, images, currentPass>>

(* uploadDocument after its await with a body carrying no document_id:    *)
(* both setters receive undefined, analyzePaper returns at line 93.       *)
uploadNoIdTwoPhase(r) ==
  /\ documentId' = Undefined
  /\ metadata' = Undefined
  /\ loading' = FALSE
  /\ settle(r)
  /\ last' = Event("upload_noid", r.pass, r)
  /\ UNCHANGED <<variant, file, analysis, images, currentPass, nSent>>

(* uploadDocument after its await rejecting: catch, finally, and          *)
(* analyzePaper returns at line 93.                                       *)
uploadRejectedTwoPhase(r) ==
  /\ loading' = FALSE
  /\ settle(r)
  /\ last' = Event("upload_failed", r.pass, r)
  /\ UNCHANGED <<variant, file, documentId, analysis, images, currentPass,
                 metadata, nSent>>

(* The functional update passed to setAnalysis. *)
setAnalysisTwoPhase(prev, passNumber, value) ==
  [prev EXCEPT ![passNumber] = value]

(* setImages(data.images) without the `if (data.images)` test: an absent  *)
(* list clears the held one.                                              *)
analyzeResolvedTwoPhase_alwaysSetsImages(r, value, hasImages, imgs) ==
  /\ analysis' = setAnalysisTwoPhase(analysis, r.pass, value)
  /\ images' = imgs
  /\ currentPass' = r.pass
  /\ loading' = FALSE
  /\ settle(r)
  /\ UNCHANGED <<variant, file, documentId, metadata, nSent>>

(* analyzePaper after its await, response.json() yielding `data`; value   *)
(* is data.analysis, hasImages whether data.images is truthy, imgs is     *)
(* data.images.                                                           *)
analyzeResolvedTwoPhase(r, value, hasImages, imgs) ==
  /\ analysis' = setAnalysisTwoPhase(analysis, r.pass, value)
  /\ images' = IF hasImages THEN imgs ELSE images
  /\ currentPass' = r.pass
  /\ loading' = FALSE
  /\ settle(r)
  /\ UNCHANGED <<variant, file, documentId, metadata, nSent>>

(* analyzePaper with setLoading(false) at the end of the try block        *)
(* instead of in finally.                                                 *)
analyzeRejectedTwoPhase_staysLoading(r) ==
  /\ settle(r)
  /\ last' = Event("analyze_failed", r.pass, r)
  /\ UNCHANGED <<variant, file, documentId, analysis, images, currentPass,
                 metadata, nSent, loading>>

(* analyzePaper after its await rejecting: catch, then finally. *)
analyzeRejectedTwoPhase(r) ==
  /\ loading' = FALSE
  /\ settle(r)
  /\ last' = Event("analyze_failed", r.pass, r)
  /\ UNCHANGED <<variant, file, documentId, analysis, images, currentPass,
                 metadata, nSent>>

(* ====================================================================== *)
(* The backend, and the steps of the system.                              *)
(* ====================================================================== *)

(* The image lists a response to the analysis of document f, pass n, may  *)
(* carry.                                                                 *)
ImageLists(f, n) == {<<>>, <<ImageRecord(f, n)>>}

(* Whether the backend knows the document an analyze request names. *)
KnownDocument(r) == r.docId.t = "document_id"

SelectSingle ==
  /\ UNCHANGED rvars
  /\ variant = "single"
  /\ \E f \in Files \cup {NoFile} : handleFileUploadSingle(f)

ClickSingle ==
  /\ UNCHANGED rvars
  /\ variant = "single"
  /\ \E n \in Passes : onClickSingle(n)

(* 200 with {analysis: ...} computed from the file sent. *)
AnalyzeOkSingle ==
  /\ UNCHANGED rvars
  /\ variant = "single"
  /\ \E r \in inflight :
       /\ r.kind = "analyze"
       /\ analyzeResolvedSingle(r, Analysis(r.file, r.pass))
       /\ last' = Event("analyze_ok", r.pass, r)

(* An error status with a JSON body: data.analysis is undefined. *)
AnalyzeNoFieldSingle ==
  /\ UNCHANGED rvars
  /\ variant = "single"
  /\ \E r \in inflight :
       /\ r.kind = "analyze"
       /\ analyzeResolvedSingle(r, Undefined)
       /\ last' = Event("analyze_nofield", r.pass, r)

AnalyzeFailSingle ==
  /\ UNCHANGED rvars
  /\ variant = "single"
  /\ \E r \in inflight : r.kind = "analyze" /\ analyzeRejectedSingle(r)

SelectTwoPhase ==
  /\ UNCHANGED rvars
  /\ variant = "two"
  /\ \E f \in Files \cup {NoFile} : handleFileUploadTwoPhase(f)

ClickTwoPhase ==
  /\ UNCHANGED rvars
  /\ variant = "two"
  /\ \E n \in Passes : onClickTwoPhase(n)

UploadOkTwoPhase ==
  /\ UNCHANGED rvars
  /\ variant = "two"
  /\ \E r \in inflight : r.kind = "upload" /\ uploadResolvedTwoPhase(r)

UploadNoIdTwoPhase ==
  /\ UNCHANGED rvars
  /\ variant = "two"
  /\ \E r \in inflight : r.kind = "upload" /\ uploadNoIdTwoPhase(r)

UploadFailTwoPhase ==
  /\ UNCHANGED rvars
  /\ variant = "two"
  /\ \E r \in inflight : r.kind = "upload" /\ uploadRejectedTwoPhase(r)

(* 200 with {analysis, images?} of the document the identifier names. *)
AnalyzeOkTwoPhase ==
  /\ UNCHANGED rvars
  /\ variant = "two"
  /\ \E r \in inflight :
       /\ r.kind = "analyze"
       /\ KnownDocument(r)
       /\ \E hasImages \in BOOLEAN :
            \E imgs \in (IF hasImages THEN ImageLists(r.docId.doc, r.pass) ELSE {<<>>}) :
              /\ analyzeResolvedTwoPhase(r, Analysis(r.docId.doc, r.pass), hasImages, imgs)
              /\ last' = EventWithImages("analyze_ok", r.pass, r, hasImages, imgs)

(* An error status with a JSON body: data.analysis and data.images are    *)
(* undefined.                                                             *)
AnalyzeNoFieldTwoPhase ==
  /\ UNCHANGED rvars
  /\ variant = "two"
  /\ \E r \in inflight :
       /\ r.kind = "analyze"
       /\ analyzeResolvedTwoPhase(r, Undefined, FALSE, <<>>)
       /\ last' = Event("analyze_nofield", r.pass, r)

AnalyzeFailTwoPhase ==
  /\ UNCHANGED rvars
  /\ variant = "two"
  /\ \E r \in inflight : r.kind = "analyze" /\ analyzeRejectedTwoPhase(r)

Next ==
  \/ SelectSingle
  \/ ClickSingle
  \/ AnalyzeOkSingle
  \/ AnalyzeNoFieldSingle
  \/ AnalyzeFailSingle
  \/ SelectTwoPhase
  \/ ClickTwoPhase
  \/ UploadOkTwoPhase
  \/ UploadNoIdTwoPhase
  \/ UploadFailTwoPhase
  \/ AnalyzeOkTwoPhase
  \/ AnalyzeNoFieldTwoPhase
  \/ AnalyzeFailTwoPhase

(* A fetch that is in flight settles. *)
Respond ==
  \/ AnalyzeOkSingle
  \/ AnalyzeNoFieldSingle
  \/ AnalyzeFailSingle
  \/ UploadOkTwoPhase
  \/ UploadNoIdTwoPhase
  \/ UploadFailTwoPhase
  \/ AnalyzeOkTwoPhase
  \/ AnalyzeNoFieldTwoPhase
  \/ AnalyzeFailTwoPhase

Spec == Init /\ [][Next]_vars

(* Every issued request eventually returns a response or fails. *)
FairSpec == Spec /\ WF_vars(Respond)

(* ====================================================================== *)
(* The result renderer: renderAnalysisContent, and React displaying what  *)
(* it returns.  Both clients have the same function (page.js:65-113,      *)
(* part_000:124-178).                                                     *)
(* ====================================================================== *)

MaxItems == 2

(* key.replace(/_/g, " ") *)
replaceUnderscores(key) ==
  [i \in 1..Len(key) |-> IF key[i] = "_" THEN " " ELSE key[i]]

UpperChar(c) ==
  CASE c = "a" -> "A" [] c = "b" -> "B" [] c = "c" -> "C" [] c = "d" -> "D"
    [] OTHER -> c

(* .toUpperCase() *)
toUpperCase(key) == [i \in 1..Len(key) |-> UpperChar(key[i])]

(* typeof v === "object" *)
typeofObject(v) == v.k \in {"object", "array", "null"}

RECURSIVE Concat(_)
Concat(ss) == IF ss = <<>> THEN "" ELSE Head(ss) \o Concat(Tail(ss))

RECURSIVE JoinComma(_)
JoinComma(ss) ==
  IF ss = <<>> THEN ""
  ELSE IF Len(ss) = 1 THEN ss[1] ELSE ss[1] \o "," \o JoinComma(Tail(ss))

(* JSON.stringify(v) *)
RECURSIVE stringify(_)
stringify(v) ==
  CASE v.k = "string" -> "\"" \o v.s \o "\""
    [] v.k = "array" ->
         "[" \o JoinComma([i \in 1..Len(v.items) |-> stringify(v.items[i])]) \o "]"
    [] v.k = "object" ->
         "{" \o JoinComma([i \in 1..Len(v.items) |->
                  "\"" \o Concat(v.keys[i]) \o "\":" \o stringify(v.items[i])]) \o "}"
    [] OTHER -> v.s

(* The string holding the JSON text of v. *)
JText(v) == JValue("string", stringify(v), <<>>, <<v>>)

(* JSON.parse(c) throws on a string that is not JSON text. *)
parseThrows(c) == c.items = <<>>
parse(c) == c.items[1]

(* Object.entries(v) throws a TypeError on null. *)
entriesThrows(v) == v.k = "null"

(* Object.entries(v): the own enumerable [key, value] pairs; an array has *)
(* its indices as keys, a string its characters (the strings of the input *)
(* domain have one), a number or a boolean none.                          *)
entries(v) ==
  CASE v.k = "object" ->
         [i \in 1..Len(v.items) |-> [key |-> v.keys[i], value |-> v.items[i]]]
    [] v.k = "array" ->
         [i \in 1..Len(v.items) |-> [key |-> <<ToString(i - 1)>>, value |-> v.items[i]]]
    [] v.k = "string" -> <<[key |-> <<"0">>, value |-> JString(v.s)]>>
    [] OTHER -> <<>>

(* One child of a list item or of a paragraph: the text of the <strong>   *)
(* or <span> label if any, and the value placed in braces.                *)
Child(strong, v) == [strong |-> strong, child |-> v]

Section(label, tag, children, throws) ==
  [label |-> label, tag |-> tag, children |-> children, throws |-> throws]

(* The callback of Object.entries(parsedContent).map: one section. *)
renderSection(key, value) ==
  LET label == toUpperCase(replaceUnderscores(key)) IN
  IF typeofObject(value)
    THEN IF value.k = "array"
           THEN Section(label, "ul",
                        [i \in 1..Len(value.items) |-> Child(<<>>, value.items[i])],
                        FALSE)
           ELSE IF entriesThrows(value)
                  THEN Section(label, "ul", <<>>, TRUE)
                  ELSE Section(label, "ul",
                         [i \in 1..Len(entries(value)) |->
                            LET e == entries(value)[i] IN
                            Child(replaceUnderscores(e.key) \o <<":">>,
                                  IF typeofObject(e.value)
                                    THEN JString(stringify(e.value))
                                    ELSE e.value)],
                         FALSE)
    ELSE Section(label, "p", <<Child(<<>>, value)>>, FALSE)

(* The catch branch: the fixed "Error rendering analysis" element. *)
Placeholder == [status |-> "placeholder", sections |-> <<>>, shown |-> FALSE]

(* renderAnalysisContent(c): the element tree it returns, or the          *)
(* placeholder when anything in the try block throws.                     *)
renderAnalysisContent(c) ==
  IF c.k = "string" /\ parseThrows(c)
    THEN Placeholder
    ELSE LET parsedContent == IF c.k = "string" THEN parse(c) ELSE c IN
         IF entriesThrows(parsedContent)
           THEN Placeholder
           ELSE LET es == entries(parsedContent)
                    secs == [i \in 1..Len(es) |-> renderSection(es[i].key, es[i].value)]
                IN IF \E i \in 1..Len(secs) : secs[i].throws
                     THEN Placeholder
                     ELSE [status |-> "tree", sections |-> secs, shown |-> FALSE]

(* React accepts text, numbers, booleans, null and arrays of those as     *)
(* children; a plain object as a child makes rendering throw.             *)
RECURSIVE validChild(_)
validChild(v) ==
  CASE v.k = "object" -> FALSE
    [] v.k = "array" -> \A i \in 1..Len(v.items) : validChild(v.items[i])
    [] OTHER -> TRUE

(* React rendering the returned elements, after the function's try block  *)
(* has been left.                                                         *)
display(result) ==
  IF \E i \in 1..Len(result.sections) :
       \E j \in 1..Len(result.sections[i].children) :
         ~validChild(result.sections[i].children[j].child)
    THEN [status |-> "raised", sections |-> <<>>, shown |-> FALSE]
    ELSE [result EXCEPT !.shown = TRUE]

(* The inputs: what a response can hold as data.analysis. *)
Keys == {<<"a">>, <<"b", "_", "c">>}
Scalars == {JNull, JNumber("1"), JString("x")}
SubValues == Scalars \cup {JArray(<<JNumber("1")>>), JObject(<<<<"d">>>>, <<JNumber("2")>>)}
SeqsUpTo(S, n) == UNION {[1..m -> S] : m \in 0..n}
KeySeqs ==
  {ks \in SeqsUpTo(Keys, Cardinality(Keys)) :
     \A i, j \in 1..Len(ks) : ks[i] = ks[j] => i = j}
Objects(S) == UNION {{JObject(ks, vs) : vs \in [1..Len(ks) -> S]} : ks \in KeySeqs}
(* The values of the sections, with lists of up to n items. *)
SectionValues(n) ==
  Scalars \cup {JArray(x) : x \in SeqsUpTo(SubValues, n)} \cup Objects(SubValues)
ParsedContents(n) ==
  Objects(SectionValues(n)) \cup {JNumber("1"), JArray(<<JString("x")>>), JNull}

(* renderAnalysisContent is called on truthy values only (page.js:170,    *)
(* part_000:258): parsed values other than null, and non-empty strings,   *)
(* JSON text or not.                                                      *)
Contents(n) ==
  (ParsedContents(n) \ {JNull}) \cup {JText(v) : v \in ParsedContents(n)}
    \cup {JString("x")}

(* A section value the spec calls well-formed: a scalar, a list of        *)
(* scalars, or a mapping.                                                 *)
WellFormedValue(v) ==
  \/ v.k \in {"null", "boolean", "number", "string"}
  \/ v.k = "array" /\ \A i \in 1..Len(v.items) : ~typeofObject(v.items[i])
  \/ v.k = "object"

WellFormed(c) ==
  /\ c.k = "object"
  /\ \A i \in 1..Len(c.items) : WellFormedValue(c.items[i])

(* The workflow state as one tuple; the renderer leaves it alone. *)
wvars == <<variant, file, documentId, analysis, images, loading, currentPass,
           metadata, inflight, nSent, last>>

(* The function is the same in both clients; it is run in the first. *)
RenderInit ==
  /\ InitWorkflow
  /\ variant = "single"
  /\ content \in Contents(MaxItems)
  /\ rendered = NotRendered

(* The component calls renderAnalysisContent(content). *)
RenderCall ==
  /\ rendered.status = "none"
  /\ rendered' = renderAnalysisContent(content)
  /\ UNCHANGED <<content, wvars>>

(* React renders what the call returned. *)
RenderDisplay ==
  /\ rendered.status \in {"tree", "placeholder"}
  /\ ~rendered.shown
  /\ rendered' = display(rendered)
  /\ UNCHANGED <<content, wvars>>

RenderNext ==
  \/ RenderCall
  \/ RenderDisplay

RenderSpec == RenderInit /\ [][RenderNext]_vars

(* ====================================================================== *)
(* Properties.                                                            *)
(* ====================================================================== *)

ClickEvents == {"click_show", "click_analyze", "click_upload", "click_nofile"}

(* The requests a step issues. *)
Issued == inflight' \ inflight

(* The document whose analysis a successful response to r carries. *)
AnalyzedDocument(r) == IF variant = "single" THEN r.file ELSE r.docId.doc

(* C1: after a file selection, whatever the state it was taken in, all    *)
(* three passes' results are empty and the displayed pass is 1; in the    *)
(* two-phase variant the image list is empty and the metadata and the     *)
(* document identifier are null.                                          *)
C1_SelectResets ==
  last.ev = "select" =>
    /\ \A n \in Passes : ~Truthy(analysis[n])
    /\ currentPass = 1
    /\ variant = "two" => (images = <<>> /\ metadata = Null /\ documentId = Null)

(* A file selected while a request is pending, after earlier requests. *)
C1_Witness ==
  /\ last.ev = "select"
  /\ loading
  /\ inflight # {}
  /\ nSent >= 2
  /\ file # NoFile

(* C2: a click on the button of pass n while pass n's result is stored    *)
(* issues no request and changes nothing but the displayed pass, which    *)
(* becomes n.                                                             *)
C2_StoredPassNotRefetched ==
  [][\A n \in Passes :
       (last'.ev \in ClickEvents /\ last'.pass = n /\ Truthy(analysis[n])) =>
         /\ nSent' = nSent
         /\ inflight' = inflight
         /\ currentPass' = n
         /\ UNCHANGED <<file, documentId, analysis, images, loading, metadata>>]_vars

(* C3 as stated: the button of pass n is enabled only with a file, no     *)
(* request pending and pass n-1 stored, and every analysis request for a  *)
(* pass n >= 2 is issued in a state where pass n-1's result is stored.    *)
C3_RequestGatedOnPreviousPass ==
  [][/\ \A n \in Passes :
          (last'.ev \in ClickEvents /\ last'.pass = n) =>
            (file # NoFile /\ ~loading /\ (n = 1 \/ Truthy(analysis[n - 1])))
     /\ \A r \in Issued :
          (r.kind = "analyze" /\ r.pass >= 2) => Truthy(analysis[r.pass - 1])]_vars

(* C3 amended: a click on the button of pass n is accepted only with a    *)
(* file, no request pending and pass n-1 stored; in the single-request    *)
(* variant every analysis request for a pass n >= 2 is issued in such a   *)
(* state, and in the two-phase variant every request a click issues is.   *)
C3_ClickGatedOnPreviousPass ==
  [][/\ \A n \in Passes :
          (last'.ev \in ClickEvents /\ last'.pass = n) =>
            (file # NoFile /\ ~loading /\ (n = 1 \/ Truthy(analysis[n - 1])))
     /\ \A r \in Issued :
          (r.pass >= 2 /\ (variant = "single" \/ last'.ev \in ClickEvents)) =>
            Truthy(analysis[r.pass - 1])]_vars

(* Pass 2 started by a click while pass 1 is stored. *)
C3_Witness ==
  /\ last.ev \in {"click_analyze", "click_upload"}
  /\ last.pass = 2
  /\ Truthy(analysis[1])
  /\ last.req \in inflight

(* C4: a stored pass result keeps its value across every step that is not *)
(* a file selection.                                                      *)
C4_StoredResultKept ==
  [][\A n \in Passes :
       (Truthy(analysis[n]) /\ last'.ev # "select") => analysis'[n] = analysis[n]]_vars

(* C5: at most one request is in flight.                                  *)
C5_OneRequestInFlight == Cardinality(inflight) <= 1

(* A request in flight across a file selection, after an earlier request. *)
C5_Witness ==
  /\ Cardinality(inflight) = 1
  /\ last.ev = "select"
  /\ nSent >= 2

(* C6: in the two-phase variant every analysis request is addressed to an *)
(* identifier the backend returned for an upload.                         *)
C6_AnalyzeAddressedToReturnedId ==
  \A r \in inflight :
    (variant = "two" /\ r.kind = "analyze") => r.docId.t = "document_id"

(* C7: a file selection aborts nothing, and the response to a request     *)
(* made for another document than the one now selected is stored under    *)
(* its pass and becomes the displayed pass.                               *)
C7_NoCancellation ==
  [][/\ last'.ev = "select" => (inflight' = inflight /\ loading' = loading)
     /\ (last'.ev = "analyze_ok" /\ AnalyzedDocument(last'.req) # file) =>
          /\ analysis'[last'.pass] = Analysis(AnalyzedDocument(last'.req), last'.pass)
          /\ currentPass' = last'.pass
          /\ file' = file]_vars

(* A result of the previous document held, and displayed, against the     *)
(* newly selected one.                                                    *)
C7_Witness ==
  /\ last.ev = "analyze_ok"
  /\ file # NoFile
  /\ Truthy(analysis[currentPass])
  /\ analysis[currentPass].doc # file
  /\ last.pass = currentPass

(* C8: a successful analysis response for pass n stores the returned      *)
(* value under n, makes n the displayed pass, and leaves the other two    *)
(* passes' results, the file and the document identifier unchanged.       *)
C8_ResponseStoredUnderItsPass ==
  [][last'.ev = "analyze_ok" =>
       /\ analysis'[last'.pass] = Analysis(AnalyzedDocument(last'.req), last'.pass)
       /\ \A n \in Passes \ {last'.pass} : analysis'[n] = analysis[n]
       /\ currentPass' = last'.pass
       /\ file' = file
       /\ documentId' = documentId]_vars

(* Pass 2 stored next to the stored result of pass 1. *)
C8_Witness ==
  /\ last.ev = "analyze_ok"
  /\ last.pass = 2
  /\ Truthy(analysis[1])
  /\ Truthy(analysis[2])
  /\ currentPass = 2

(* C9: a failed upload or analysis request clears the pending flag and    *)
(* changes nothing else: no pass result, not the displayed pass.          *)
C9_FailureOnlyClearsPending ==
  [][last'.ev \in {"analyze_failed", "upload_failed"} =>
       /\ loading' = FALSE
       /\ UNCHANGED <<file, documentId, analysis, images, currentPass, metadata>>]_vars

(* Pass 2 failed while pass 1 is stored and displayed. *)
C9_Witness ==
  /\ last.ev = "analyze_failed"
  /\ last.pass = 2
  /\ Truthy(analysis[1])
  /\ ~Truthy(analysis[2])
  /\ currentPass = 1
  /\ ~loading

(* C10: a response whose body carries no analysis field changes no stored *)
(* pass result and not the displayed pass.                                *)
C10_ErrorBodyIsNoOp ==
  [][last'.ev = "analyze_nofield" =>
       /\ \A n \in Passes : Truthy(analysis[n]) => analysis'[n] = analysis[n]
       /\ currentPass' = currentPass]_vars

ResponseEvents ==
  {"analyze_ok", "analyze_nofield", "analyze_failed",
   "upload_ok", "upload_noid", "upload_failed"}

(* C11: in the two-phase variant an upload succeeds only while no         *)
(* identifier is stored; while one is stored no upload is in flight and   *)
(* no click issues one, and the identifier and metadata stay as written   *)
(* until the next file selection; an analysis and image list returned for *)
(* a requested pass 1 are stored as pass 1's result and as the image      *)
(* list.                                                                  *)
C11_UploadedOncePerSelection ==
  [][variant = "two" =>
       /\ last'.ev = "upload_ok" =>
            (~Truthy(documentId) /\ Truthy(documentId') /\ Truthy(metadata'))
       /\ Truthy(documentId) =>
            /\ \A r \in inflight \cup Issued : r.kind # "upload"
            /\ last'.ev # "select" =>
                 (documentId' = documentId /\ metadata' = metadata)
       /\ (last'.ev = "analyze_ok" /\ last'.pass = 1) =>
            /\ analysis'[1] = Analysis(AnalyzedDocument(last'.req), 1)
            /\ last'.hasImages => images' = last'.imgs]_vars

(* Pass 2 requested after the upload made for pass 1, without a new       *)
(* upload, next to pass 1's stored result.                                *)
C11_Witness ==
  /\ variant = "two"
  /\ last.ev = "click_analyze"
  /\ last.pass = 2
  /\ Truthy(documentId)
  /\ Truthy(metadata)
  /\ Truthy(analysis[1])

(* C12 as stated: after a successful analysis response the image list is  *)
(* the list that response carried, none when it carried none.             *)
C12_ImagesReplacedByEachPass ==
  [][(variant = "two" /\ last'.ev = "analyze_ok") =>
       images' = (IF last'.hasImages THEN last'.imgs ELSE <<>>)]_vars

(* C12 amended: a successful analysis response that carries an image      *)
(* list replaces the held list with it; one that carries none leaves the  *)
(* held list as it was.                                                   *)
C12_ImagesReplacedWhenPresent ==
  [][(variant = "two" /\ last'.ev = "analyze_ok") =>
       images' = (IF last'.hasImages THEN last'.imgs ELSE images)]_vars

(* The images of pass 1 held next to the result of pass 2, whose response *)
(* carried none.                                                          *)
C12_Witness ==
  /\ variant = "two"
  /\ last.ev = "analyze_ok"
  /\ last.pass = 2
  /\ ~last.hasImages
  /\ Len(images) = 1
  /\ images[1].pass = 1
  /\ Truthy(analysis[2])

(* The value the renderer was called on, parsed if it was JSON text. *)
ParsedContent == IF content.k = "string" THEN parse(content) ELSE content

(* C13: whatever the input, rendering it never raises: the outcome is the *)
(* element tree or the fixed placeholder; and a string that is not JSON   *)
(* text, or a value with a null section, gives the placeholder.           *)
C13_RendererNeverRaises ==
  /\ rendered.status # "raised"
  /\ (rendered.status # "none" /\ content.k = "string" /\ parseThrows(content)) =>
       rendered.status = "placeholder"
  /\ (rendered.status # "none" /\ ~(content.k = "string" /\ parseThrows(content))
        /\ ParsedContent.k = "object"
        /\ \E i \in 1..Len(ParsedContent.items) : ParsedContent.items[i] = JNull) =>
       rendered.status = "placeholder"

(* The section the spec describes for key and value. *)
ExpectedSection(key, value) ==
  CASE value.k = "array" ->
         Section(toUpperCase(replaceUnderscores(key)), "ul",
                 [i \in 1..Len(value.items) |-> Child(<<>>, value.items[i])], FALSE)
    [] value.k = "object" ->
         Section(toUpperCase(replaceUnderscores(key)), "ul",
                 [i \in 1..Len(value.items) |->
                    Child(replaceUnderscores(value.keys[i]) \o <<":">>,
                          IF typeofObject(value.items[i])
                            THEN JString(stringify(value.items[i]))
                            ELSE value.items[i])],
                 FALSE)
    [] OTHER ->
         Section(toUpperCase(replaceUnderscores(key)), "p", <<Child(<<>>, value)>>, FALSE)

(* C14: a well-formed analysis object is rendered as one labeled section  *)
(* per key, in key order: a list item per element of an array, a          *)
(* "key: value" line per entry of a nested object with object values      *)
(* stringified, a text block for a scalar, null included.                 *)
C14_SectionPerKey ==
  (rendered.status # "none" /\ WellFormed(content)) =>
    /\ rendered.status = "tree"
    /\ Len(rendered.sections) = Len(content.items)
    /\ \A i \in 1..Len(content.items) :
         rendered.sections[i] = ExpectedSection(content.keys[i], content.items[i])

(* C15 as stated: in the two-phase variant a stored document identifier,  *)
(* and the stored metadata, are those the backend returned for the        *)
(* upload of the currently selected file.                                 *)
C15_IdentifierOfSelectedFile ==
  variant = "two" =>
    /\ Truthy(documentId) => documentId = DocumentId(file)
    /\ Truthy(metadata) => metadata = Metadata(file)

(* C15 amended: the stored identifier and metadata are those returned for *)
(* the upload of the file that was selected when the pass was clicked;    *)
(* they are written together, kept by every step but a file selection,    *)
(* and cleared by every file selection.                                   *)
C15_IdentifierOfUploadedFile ==
  [][variant = "two" =>
       /\ last'.ev = "upload_ok" =>
            /\ documentId' = DocumentId(last'.req.file)
            /\ metadata' = Metadata(last'.req.file)
       /\ last'.ev = "select" => (documentId' = Null /\ metadata' = Null)
       /\ (Truthy(documentId) /\ last'.ev # "select") =>
            (documentId' = documentId /\ metadata' = metadata)
       /\ Truthy(documentId') => metadata' = Metadata(documentId'.doc)]_vars

(* The identifier of the previous file stored against the file selected   *)
(* while its upload was in flight.                                        *)
C15_Witness ==
  /\ variant = "two"
  /\ file # NoFile
  /\ Truthy(documentId)
  /\ documentId.doc # file
  /\ metadata = Metadata(documentId.doc)

(* C16: the stored results form a prefix of the passes.                   *)
C16_StoredResultsFormPrefix ==
  \A n \in 2..3 : Truthy(analysis[n]) => Truthy(analysis[n - 1])

(* C17: in the two-phase variant, when the upload made for a click fails  *)
(* or returns no identifier, no analysis request is issued, no pass       *)
(* result and not the displayed pass change, and the pending flag is      *)
(* cleared with nothing left in flight.                                   *)
C17_NoAnalysisAfterFailedUpload ==
  [][(variant = "two" /\ last'.ev \in {"upload_failed", "upload_noid"}) =>
       /\ Issued = {}
       /\ nSent' = nSent
       /\ inflight' = inflight \ {last'.req}
       /\ ~Truthy(documentId')
       /\ analysis' = analysis
       /\ currentPass' = currentPass
       /\ ~loading']_vars

(* An upload for pass 2 answered without an identifier, pass 1 stored. *)
C17_Witness ==
  /\ variant = "two"
  /\ last.ev = "upload_noid"
  /\ last.pass = 2
  /\ Truthy(analysis[1])
  /\ ~Truthy(analysis[2])
  /\ inflight = {}
  /\ ~loading

(* C18: the pending flag is set exactly while a request is in flight, and *)
(* when every request eventually settles, a set pending flag is           *)
(* eventually cleared with nothing in flight.                             *)
C18_PendingUntilSettled ==
  /\ [](loading <=> inflight # {})
  /\ (loading ~> (~loading /\ inflight = {}))

(* The pending flag cleared by the analysis that followed an upload. *)
C18_Witness ==
  /\ variant = "two"
  /\ last.ev \in {"analyze_ok", "analyze_nofield", "analyze_failed"}
  /\ last.req.docId = Null
  /\ ~loading
  /\ inflight = {}

====
